---- MODULE Spec2Model ----
(***************************************************************************)
(* Model of vulkano's per-buffer access tracker, BufferState               *)
(* (vulkano/src/buffer/sys.rs): a range map from byte ranges to a          *)
(* CurrentAccess, with check / lock / unlock operations for CPU and GPU    *)
(* readers and writers; and of the GpuFuture protocol                      *)
(* (vulkano/src/sync/future/mod.rs) whose futures hold GPU locks on the    *)
(* buffer until they are finished.                                         *)
(***************************************************************************)
EXTENDS Integers, Sequences, FiniteSets, Bags, TLC

VARIABLES ranges, panicked, overflow_checks, held, destroyed, fut,
          mutex, threads, call

vars == <<ranges, panicked, overflow_checks, held, destroyed, fut,
          mutex, threads, call>>

(* ------------------------------ bounds --------------------------------- *)

\* Size in bytes of the modelled buffer.
Size == 3

\* Largest number of locks outstanding at one time.
MaxHeld == 2

\* Largest number of back-to-back repetitions tried by the repetition claims.
MaxRepeat == 3

\* Largest number of calls of one method counted on one future.
MaxCalls == 2

\* Largest number of stages set in one stage mask of a subpass dependency.
MaxStages == 2

\* Number of threads that share the buffer.
MaxThreads == 3

\* Largest number of memory types of a physical device.
MaxTypes == 2

(* ------------------------------ values --------------------------------- *)

\* The counters of CurrentAccess are u32. A counter value v is written as the
\* integer with the same 32-bit pattern (v below 2^31 as v, v from 2^31 on as
\* v - 2^32), so that u32::MAX = 2^32 - 1 is written -1 and wrapping
\* arithmetic is exact at both ends of the type.
U32Max == 0 - 1

\* Range<DeviceSize> values start..end with start < end inside the buffer.
Ranges == {r \in [start : 0 .. Size, end : 0 .. Size] : r.start < r.end}

Full == [start |-> 0, end |-> Size]

BytesOf(r) == {b \in 0 .. (Size - 1) : r.start <= b /\ b < r.end}

RangesOverlap(r1, r2) == r1.start < r2.end /\ r2.start < r1.end

Min(S) == CHOOSE x \in S : \A y \in S : x <= y

Max(S) == CHOOSE x \in S : \A y \in S : x >= y

\* CurrentAccess, as constructed and matched in sys.rs.
Shared(c, g) == [tag |-> "Shared", cpu_reads |-> c, gpu_reads |-> g]

CpuExclusive == [tag |-> "CpuExclusive"]

GpuExclusive(g, w) == [tag |-> "GpuExclusive", gpu_reads |-> g, gpu_writes |-> w]

\* The outcome of a match arm that hits unreachable!() or an arithmetic
\* overflow check.
Panic == [tag |-> "Panic"]

\* `*n += 1` and `*n -= 1` on a u32 overflow at these values: a panic when
\* overflow checks are compiled in, a wrap otherwise.
add_overflows(n) == n = U32Max

sub_overflows(n) == n = 0

wrapping_add(n) == IF n = U32Max THEN 0 ELSE n + 1

wrapping_sub(n) == IF n = 0 THEN U32Max ELSE n - 1

(* ------------------------------ RangeMap ------------------------------- *)
\* The map is a sequence of entries [start, end, state] in ascending order
\* of start, which is the iteration order of the underlying ordered map.

\* RangeMap::split_at: the entry that strictly contains `key` is cut in two
\* entries carrying the same state; otherwise nothing changes.
split_at(rs, key) ==
    IF \E i \in DOMAIN rs : rs[i].start < key /\ key < rs[i].end
    THEN LET i == CHOOSE j \in DOMAIN rs : rs[j].start < key /\ key < rs[j].end
         IN  SubSeq(rs, 1, i - 1)
             \o << [rs[i] EXCEPT !.end = key], [rs[i] EXCEPT !.start = key] >>
             \o SubSeq(rs, i + 1, Len(rs))
    ELSE rs

\* RangeMap::range: the indices of the entries that overlap `r`.
range(rs, r) == {i \in DOMAIN rs : rs[i].start < r.end /\ r.start < rs[i].end}

\* The one element of a singleton set.
Only(S) == CHOOSE x \in S : TRUE

\* `for (_range, state) in self.ranges.range(&range) { match ... }` of the
\* check_* functions, given the outcome out[i] of the match for each entry i
\* in range: the first entry, in ascending order, whose arm returns decides.
first_err(out) ==
    IF \A i \in DOMAIN out : out[i] = "Ok" THEN "Ok"
    ELSE out[Min({i \in DOMAIN out : out[i] # "Ok"})]

\* `for (_range, state) in self.ranges.range_mut(&range) { match ... }` of
\* the lock and unlock functions on the map m, given the outcome out[i] of
\* the match for each entry i in range: entries are updated in ascending
\* order and the loop is left at the first arm that panics, the earlier
\* updates staying.
update_entries(m, out) ==
    [ranges |-> [i \in DOMAIN m |->
                    IF i \in DOMAIN out /\ (\A j \in DOMAIN out : out[j] = Panic => i < j)
                    THEN [m[i] EXCEPT !.state = out[i]]
                    ELSE m[i]],
     panic  |-> \E j \in DOMAIN out : out[j] = Panic]

for_each_mut(m, out) == Only({update_entries(m, o) : o \in {out}})

(* ------------------------------ BufferState ---------------------------- *)

new_short(size) ==
    << [start |-> 0, end |-> size - 1, state |-> Shared(0, 0)] >>

new(size) ==
    << [start |-> 0, end |-> size, state |-> Shared(0, 0)] >>

check_cpu_read_contained(rs, r) ==
    first_err([i \in {j \in DOMAIN rs : r.start <= rs[j].start /\ rs[j].end <= r.end} |->
        CASE rs[i].state.tag = "CpuExclusive" -> "CpuWriteLocked"
          [] rs[i].state.tag = "GpuExclusive" -> "GpuWriteLocked"
          [] rs[i].state.tag = "Shared"       -> "Ok"])

check_cpu_read(rs, r) ==
    first_err([i \in range(rs, r) |->
        CASE rs[i].state.tag = "CpuExclusive" -> "CpuWriteLocked"
          [] rs[i].state.tag = "GpuExclusive" -> "GpuWriteLocked"
          [] rs[i].state.tag = "Shared"       -> "Ok"])

cpu_read_lock_skips_exclusive(rs, r, oc) ==
    Only({for_each_mut(m, [i \in range(m, r) |->
              IF m[i].state.tag = "Shared"
              THEN IF oc /\ add_overflows(m[i].state.cpu_reads) THEN Panic
                   ELSE Shared(wrapping_add(m[i].state.cpu_reads), m[i].state.gpu_reads)
              ELSE m[i].state])
          : m \in {split_at(split_at(rs, r.start), r.end)}})

cpu_read_lock(rs, r, oc) ==
    Only({for_each_mut(m, [i \in range(m, r) |->
              IF m[i].state.tag = "Shared"
              THEN IF oc /\ add_overflows(m[i].state.cpu_reads) THEN Panic
                   ELSE Shared(wrapping_add(m[i].state.cpu_reads), m[i].state.gpu_reads)
              ELSE Panic])
          : m \in {split_at(split_at(rs, r.start), r.end)}})

cpu_read_unlock_reset(rs, r, oc) ==
    Only({for_each_mut(m, [i \in range(m, r) |->
              IF m[i].state.tag = "Shared"
              THEN Shared(0, m[i].state.gpu_reads)
              ELSE Panic])
          : m \in {split_at(split_at(rs, r.start), r.end)}})

cpu_read_unlock(rs, r, oc) ==
    Only({for_each_mut(m, [i \in range(m, r) |->
              IF m[i].state.tag = "Shared"
              THEN IF oc /\ sub_overflows(m[i].state.cpu_reads) THEN Panic
                   ELSE Shared(wrapping_sub(m[i].state.cpu_reads), m[i].state.gpu_reads)
              ELSE Panic])
          : m \in {split_at(split_at(rs, r.start), r.end)}})

check_cpu_write_gpu_first(rs, r) ==
    first_err([i \in range(rs, r) |->
        CASE rs[i].state.tag = "CpuExclusive" -> "CpuLocked"
          [] rs[i].state.tag = "GpuExclusive" -> "GpuLocked"
          [] rs[i].state = Shared(0, 0) -> "Ok"
          [] rs[i].state.tag = "Shared" /\ rs[i].state # Shared(0, 0)
                /\ rs[i].state.gpu_reads # 0 -> "GpuLocked"
          [] OTHER -> "CpuLocked"])

check_cpu_write_ignores_readers(rs, r) ==
    first_err([i \in range(rs, r) |->
        CASE rs[i].state.tag = "CpuExclusive" -> "CpuLocked"
          [] rs[i].state.tag = "GpuExclusive" -> "GpuLocked"
          [] OTHER -> "Ok"])

check_cpu_write_allows_one_reader(rs, r) ==
    first_err([i \in range(rs, r) |->
        CASE rs[i].state.tag = "CpuExclusive" -> "CpuLocked"
          [] rs[i].state.tag = "GpuExclusive" -> "GpuLocked"
          [] rs[i].state.tag = "Shared" /\ rs[i].state.gpu_reads = 0
                /\ rs[i].state.cpu_reads \in {0, 1} -> "Ok"
          [] rs[i].state.tag = "Shared" /\ rs[i].state.cpu_reads # 0 -> "CpuLocked"
          [] OTHER -> "GpuLocked"])

check_cpu_write(rs, r) ==
    first_err([i \in range(rs, r) |->
        CASE rs[i].state.tag = "CpuExclusive" -> "CpuLocked"
          [] rs[i].state.tag = "GpuExclusive" -> "GpuLocked"
          [] rs[i].state = Shared(0, 0) -> "Ok"
          [] rs[i].state.tag = "Shared" /\ rs[i].state # Shared(0, 0)
                /\ rs[i].state.cpu_reads # 0 -> "CpuLocked"
          [] OTHER -> "GpuLocked"])

cpu_write_lock_no_split(rs, r, oc) ==
    for_each_mut(rs, [i \in range(rs, r) |-> CpuExclusive])

cpu_write_lock_noop(rs, r, oc) ==
    Only({for_each_mut(m, [i \in range(m, r) |-> m[i].state])
          : m \in {split_at(split_at(rs, r.start), r.end)}})

cpu_write_lock_verifies(rs, r, oc) ==
    Only({for_each_mut(m, [i \in range(m, r) |->
              IF m[i].state = Shared(0, 0) THEN CpuExclusive ELSE Panic])
          : m \in {split_at(split_at(rs, r.start), r.end)}})

cpu_write_lock(rs, r, oc) ==
    Only({for_each_mut(m, [i \in range(m, r) |-> CpuExclusive])
          : m \in {split_at(split_at(rs, r.start), r.end)}})

cpu_write_unlock_keeps(rs, r, oc) ==
    Only({for_each_mut(m, [i \in range(m, r) |->
              IF m[i].state.tag = "CpuExclusive" THEN m[i].state ELSE Panic])
          : m \in {split_at(split_at(rs, r.start), r.end)}})

cpu_write_unlock(rs, r, oc) ==
    Only({for_each_mut(m, [i \in range(m, r) |->
              IF m[i].state.tag = "CpuExclusive" THEN Shared(0, 0) ELSE Panic])
          : m \in {split_at(split_at(rs, r.start), r.end)}})

check_gpu_read_pipelined(rs, r) ==
    first_err([i \in range(rs, r) |->
        IF rs[i].state.tag \in {"Shared", "GpuExclusive"} THEN "Ok" ELSE "AlreadyInUse"])

check_gpu_read_ignores_cpu_writer(rs, r) ==
    first_err([i \in range(rs, r) |->
        IF rs[i].state.tag \in {"Shared", "CpuExclusive"} THEN "Ok" ELSE "AlreadyInUse"])

check_gpu_read(rs, r) ==
    first_err([i \in range(rs, r) |->
        IF rs[i].state.tag = "Shared" THEN "Ok" ELSE "AlreadyInUse"])

gpu_read_lock_shared_only(rs, r, oc) ==
    Only({for_each_mut(m, [i \in range(m, r) |->
              CASE m[i].state.tag = "Shared" ->
                      IF oc /\ add_overflows(m[i].state.gpu_reads) THEN Panic
                      ELSE Shared(m[i].state.cpu_reads, wrapping_add(m[i].state.gpu_reads))
                [] OTHER -> Panic])
          : m \in {split_at(split_at(rs, r.start), r.end)}})

gpu_read_lock(rs, r, oc) ==
    Only({for_each_mut(m, [i \in range(m, r) |->
              CASE m[i].state.tag = "GpuExclusive" ->
                      IF oc /\ add_overflows(m[i].state.gpu_reads) THEN Panic
                      ELSE GpuExclusive(wrapping_add(m[i].state.gpu_reads),
                                        m[i].state.gpu_writes)
                [] m[i].state.tag = "Shared" ->
                      IF oc /\ add_overflows(m[i].state.gpu_reads) THEN Panic
                      ELSE Shared(m[i].state.cpu_reads, wrapping_add(m[i].state.gpu_reads))
                [] OTHER -> Panic])
          : m \in {split_at(split_at(rs, r.start), r.end)}})

gpu_read_unlock_keeps(rs, r, oc) ==
    Only({for_each_mut(m, [i \in range(m, r) |->
              IF m[i].state.tag \in {"GpuExclusive", "Shared"} THEN m[i].state ELSE Panic])
          : m \in {split_at(split_at(rs, r.start), r.end)}})

gpu_read_unlock(rs, r, oc) ==
    Only({for_each_mut(m, [i \in range(m, r) |->
              CASE m[i].state.tag = "GpuExclusive" ->
                      IF oc /\ sub_overflows(m[i].state.gpu_reads) THEN Panic
                      ELSE GpuExclusive(wrapping_sub(m[i].state.gpu_reads),
                                        m[i].state.gpu_writes)
                [] m[i].state.tag = "Shared" ->
                      IF oc /\ sub_overflows(m[i].state.gpu_reads) THEN Panic
                      ELSE Shared(m[i].state.cpu_reads, wrapping_sub(m[i].state.gpu_reads))
                [] OTHER -> Panic])
          : m \in {split_at(split_at(rs, r.start), r.end)}})

check_gpu_write_allows_gpu_reads(rs, r) ==
    first_err([i \in range(rs, r) |->
        IF rs[i].state.tag = "Shared" /\ rs[i].state.cpu_reads = 0
        THEN "Ok" ELSE "AlreadyInUse"])

check_gpu_write_ignores_cpu_reads(rs, r) ==
    first_err([i \in range(rs, r) |->
        IF rs[i].state.tag = "Shared" /\ rs[i].state.gpu_reads = 0
        THEN "Ok" ELSE "AlreadyInUse"])

check_gpu_write(rs, r) ==
    first_err([i \in range(rs, r) |->
        IF rs[i].state = Shared(0, 0) THEN "Ok" ELSE "AlreadyInUse"])

gpu_write_lock(rs, r, oc) ==
    Only({for_each_mut(m, [i \in range(m, r) |->
              CASE m[i].state.tag = "GpuExclusive" ->
                      IF oc /\ add_overflows(m[i].state.gpu_writes) THEN Panic
                      ELSE GpuExclusive(m[i].state.gpu_reads,
                                        wrapping_add(m[i].state.gpu_writes))
                [] m[i].state.tag = "Shared" /\ m[i].state.cpu_reads = 0 ->
                      GpuExclusive(m[i].state.gpu_reads, 1)
                [] OTHER -> Panic])
          : m \in {split_at(split_at(rs, r.start), r.end)}})

gpu_write_unlock_resets_reads(rs, r, oc) ==
    Only({for_each_mut(m, [i \in range(m, r) |->
              CASE m[i].state.tag = "GpuExclusive" /\ m[i].state.gpu_writes = 1 ->
                      Shared(0, 0)
                [] m[i].state.tag = "GpuExclusive" /\ m[i].state.gpu_writes # 1 ->
                      GpuExclusive(m[i].state.gpu_reads,
                                   wrapping_sub(m[i].state.gpu_writes))
                [] OTHER -> Panic])
          : m \in {split_at(split_at(rs, r.start), r.end)}})

gpu_write_unlock(rs, r, oc) ==
    Only({for_each_mut(m, [i \in range(m, r) |->
              CASE m[i].state.tag = "GpuExclusive" /\ m[i].state.gpu_writes = 1 ->
                      Shared(0, m[i].state.gpu_reads)
                [] m[i].state.tag = "GpuExclusive" /\ m[i].state.gpu_writes # 1 ->
                      IF oc /\ sub_overflows(m[i].state.gpu_writes) THEN Panic
                      ELSE GpuExclusive(m[i].state.gpu_reads,
                                        wrapping_sub(m[i].state.gpu_writes))
                [] OTHER -> Panic])
          : m \in {split_at(split_at(rs, r.start), r.end)}})

\* The check, lock and unlock function of each kind of access.
check(k, rs, r) ==
    CASE k = "cpu_read"  -> check_cpu_read(rs, r)
      [] k = "cpu_write" -> check_cpu_write(rs, r)
      [] k = "gpu_read"  -> check_gpu_read(rs, r)
      [] k = "gpu_write" -> check_gpu_write(rs, r)

lock(k, rs, r, oc) ==
    CASE k = "cpu_read"  -> cpu_read_lock(rs, r, oc)
      [] k = "cpu_write" -> cpu_write_lock(rs, r, oc)
      [] k = "gpu_read"  -> gpu_read_lock(rs, r, oc)
      [] k = "gpu_write" -> gpu_write_lock(rs, r, oc)

unlock(k, rs, r, oc) ==
    CASE k = "cpu_read"  -> cpu_read_unlock(rs, r, oc)
      [] k = "cpu_write" -> cpu_write_unlock(rs, r, oc)
      [] k = "gpu_read"  -> gpu_read_unlock(rs, r, oc)
      [] k = "gpu_write" -> gpu_write_unlock(rs, r, oc)

(* ------------------------------ GpuFuture ------------------------------ *)
\* The two operands of join(first, second). Each is now() until
\* then_execute puts a command buffer after it; the command buffer accesses
\* one range of the buffer and holds the GPU lock of that access.

FutIds == {"first", "second"}

\* The state of a future:
\*   variant      "Now" or "Exec" (a command buffer execution after now())
\*   access       <<kind, range>> of the GPU lock an Exec future holds
\*   flushed      "no", or the result the first flush returned
\*   submissions  the number of driver submissions made for the future
\*   flushes      the number of flush() and build_submission() calls
\*   done         the driver has finished the submitted work
\*   finished     the future is in its complete state
\*   signals      the number of signal_finished() and cleanup_finished() calls
\*                since the work was done
\*   unlocks      the number of times the future released its resource locks
\*   dropped      the future was destroyed (no call is counted on it any more)
NowFuture ==
    [variant |-> "Now", access |-> <<>>, flushed |-> "no", submissions |-> 0,
     flushes |-> 0, done |-> FALSE, finished |-> FALSE, signals |-> 0,
     unlocks |-> 0, dropped |-> FALSE]

ExecFuture(k, r) == [NowFuture EXCEPT !.variant = "Exec", !.access = <<k, r>>]

\* The driver statuses a submission is tried with.
FlushResults == {"Ok", "DeviceLost"}

\* build_submission: what remains to be submitted for the future.
build_submission(s) ==
    IF s.variant = "Exec" /\ s.flushed = "no" THEN "CommandBuffer" ELSE "Empty"

\* The driver submission layer consumed the submission and returned `status`.
submitted(s, status) ==
    [s EXCEPT !.flushed = status, !.submissions = @ + 1]

\* flush: the first call performs the submission and remembers the result,
\* later calls are no-ops.
flush(s, status) ==
    IF build_submission(s) = "Empty" THEN s ELSE submitted(s, status)

\* What the driver may answer to a flush of the future: it is asked only if
\* something is left to submit.
DriverAnswers(s) ==
    IF build_submission(s) = "Empty" THEN {"not asked"} ELSE FlushResults

\* The Result flush returns.
flush_result(s) == IF s.variant = "Now" THEN "Ok" ELSE s.flushed

\* The future gives up its resource locks.
release(s) == [s EXCEPT !.unlocks = @ + 1]

signal_finished_again(s) ==
    IF s.variant = "Exec" THEN [release(s) EXCEPT !.finished = TRUE] ELSE s

\* signal_finished: sets the future to its complete state and releases its
\* locks; a repeated call finds it complete and does nothing.
signal_finished(s) ==
    IF s.variant = "Exec" /\ ~s.finished
    THEN [release(s) EXCEPT !.finished = TRUE] ELSE s

\* cleanup_finished: the same, if the driver confirms completion.
cleanup_finished(s) ==
    IF s.variant = "Exec" /\ s.done THEN signal_finished(s) ELSE s

\* Destruction of a future: one that was not finished gives up its locks
\* (after it waited for the submitted work, see DropFuture).
drop(s) ==
    [(IF s.variant = "Exec" /\ ~s.finished THEN release(s) ELSE s)
        EXCEPT !.dropped = TRUE, !.flushes = 0, !.signals = 0]

\* check_buffer_access of an operand: a future whose command buffer uses an
\* overlapping range answers (it grants shared access, and exclusive access
\* if its own access is exclusive); any other defers to its predecessor
\* now(), which does not know the buffer.
check_buffer_access(s, r, exclusive) ==
    IF s.variant = "Exec" /\ RangesOverlap(s.access[2], r)
    THEN IF exclusive /\ s.access[1] # "gpu_write"
         THEN [tag |-> "Denied", err |-> "ExclusiveDenied"]
         ELSE [tag |-> "Ok"]
    ELSE [tag |-> "Unknown"]

join_check_buffer_access_first_wins(a, b) ==
    IF a.tag # "Unknown" THEN a ELSE b

\* check_buffer_access of join(first, second), from the answers of the two.
join_check_buffer_access(a, b) ==
    CASE b.tag = "Unknown" -> a
      [] a.tag = "Unknown" /\ b.tag # "Unknown" -> b
      [] a.tag = "Denied" /\ b.tag = "Denied" -> a
      [] a.tag = "Ok" /\ b.tag = "Ok" -> [tag |-> "Ok"]
      [] OTHER -> [tag |-> "Denied", err |-> "ExclusiveDenied"]

\* impl GpuFuture for Box<F>: every method calls the method of the boxed
\* future with the same arguments.
box_cleanup_finished(s) == cleanup_finished(s)

box_build_submission(s) == build_submission(s)

box_flush_builds_only(s, status) ==
    IF box_build_submission(s) = "Empty" THEN s ELSE s

box_flush(s, status) == flush(s, status)

box_signal_finished(s) == signal_finished(s)

box_check_buffer_access(s, r, exclusive) == check_buffer_access(s, r, exclusive)

(* ------------------------------ callers -------------------------------- *)
\* `held` is the ledger of the locks that were granted and not yet released:
\* the bag of their <<kind, range>>. It is what the guards
\* (ReadLock, WriteLock) and the command buffers holding GPU locks remember.

LockKinds == {"cpu_read", "cpu_write", "gpu_read", "gpu_write"}

HeldTotal(h) == BagCardinality(h)

\* Number of outstanding locks of kind k that cover byte b.
Holders(k, b) ==
    LET covering == {l \in BagToSet(held) : l[1] = k /\ b \in BytesOf(l[2])}
    IN  BagCardinality([l \in covering |-> held[l]])

\* The state of the entry that contains byte b.
ByteState(rs, b) ==
    rs[CHOOSE i \in DOMAIN rs : rs[i].start <= b /\ b < rs[i].end].state

ByteView(rs) == [b \in 0 .. (Size - 1) |-> ByteState(rs, b)]

\* The threads that share the buffer. Each has
\*   pc      where it is: "idle", or inside read(), write() or the drop of a
\*           guard
\*   reads   the number of ReadLock guards it owns
\*   writes  the number of WriteLock guards it owns
\*   result  what its last read() or write() returned
Threads == 1 .. MaxThreads

IdleThread == [pc |-> "idle", reads |-> 0, writes |-> 0, result |-> "none"]

\* No function has been called.
NoCall == [fn |-> "none"]

Init ==
    /\ ranges = new(Size)
    /\ panicked = FALSE
    /\ overflow_checks \in BOOLEAN
    /\ held = EmptyBag
    /\ destroyed = FALSE
    /\ fut = [f \in FutIds |-> NowFuture]
    /\ mutex = 0
    /\ threads = [t \in Threads |-> IdleThread]
    /\ call = NoCall

\* A lock call returned (or unwound): the map it left, and the ledger entry
\* of the lock when it was granted.
Granted(res, k, r) ==
    /\ ranges' = res.ranges
    /\ panicked' = res.panic
    /\ held' = IF res.panic THEN held ELSE held (+) SetToBag({<<k, r>>})
    /\ UNCHANGED <<overflow_checks, destroyed, fut, mutex, threads, call>>

Released(res, k, r) ==
    /\ ranges' = res.ranges
    /\ panicked' = res.panic
    /\ held' = held (-) SetToBag({<<k, r>>})
    /\ UNCHANGED <<overflow_checks, destroyed, fut, mutex, threads, call>>

\* check_cpu_read(range)?; cpu_read_lock(range), as CpuAccessibleBuffer::read
\* does in one critical section of the state mutex.
CpuRead(r) ==
    /\ ~panicked
    /\ HeldTotal(held) < MaxHeld
    /\ check_cpu_read(ranges, r) = "Ok"
    /\ \E res \in {cpu_read_lock(ranges, r, overflow_checks)} : Granted(res, "cpu_read", r)

\* Drop for ReadLock.
CpuReadDrop(r) ==
    /\ ~panicked
    /\ BagIn(<<"cpu_read", r>>, held)
    /\ \E res \in {cpu_read_unlock(ranges, r, overflow_checks)} : Released(res, "cpu_read", r)

\* check_cpu_write(range)?; cpu_write_lock(range), as CpuAccessibleBuffer::write.
CpuWrite(r) ==
    /\ ~panicked
    /\ HeldTotal(held) < MaxHeld
    /\ check_cpu_write(ranges, r) = "Ok"
    /\ \E res \in {cpu_write_lock(ranges, r, overflow_checks)} : Granted(res, "cpu_write", r)

\* Drop for WriteLock.
CpuWriteDrop(r) ==
    /\ ~panicked
    /\ BagIn(<<"cpu_write", r>>, held)
    /\ \E res \in {cpu_write_unlock(ranges, r, overflow_checks)} : Released(res, "cpu_write", r)

\* check_gpu_read(range) succeeded, then gpu_read_lock(range).
GpuRead(r) ==
    /\ ~panicked
    /\ HeldTotal(held) < MaxHeld
    /\ check_gpu_read(ranges, r) = "Ok"
    /\ \E res \in {gpu_read_lock(ranges, r, overflow_checks)} : Granted(res, "gpu_read", r)

GpuReadUnlock(r) ==
    /\ ~panicked
    /\ BagIn(<<"gpu_read", r>>, held)
    /\ \E res \in {gpu_read_unlock(ranges, r, overflow_checks)} : Released(res, "gpu_read", r)

\* check_gpu_write(range) succeeded, then gpu_write_lock(range).
GpuWrite(r) ==
    /\ ~panicked
    /\ HeldTotal(held) < MaxHeld
    /\ check_gpu_write(ranges, r) = "Ok"
    /\ \E res \in {gpu_write_lock(ranges, r, overflow_checks)} : Granted(res, "gpu_write", r)

GpuWriteUnlock(r) ==
    /\ ~panicked
    /\ BagIn(<<"gpu_write", r>>, held)
    /\ \E res \in {gpu_write_unlock(ranges, r, overflow_checks)} : Released(res, "gpu_write", r)

Next ==
    \E r \in Ranges :
        \/ CpuRead(r)
        \/ CpuReadDrop(r)
        \/ CpuWrite(r)
        \/ CpuWriteDrop(r)
        \/ GpuRead(r)
        \/ GpuReadUnlock(r)
        \/ GpuWrite(r)
        \/ GpuWriteUnlock(r)

\* Every lock is taken after its check succeeded and released once.
Spec == Init /\ [][Next]_vars

\* The arms of gpu_read_lock and gpu_write_lock accept more than the checks
\* do (a GpuExclusive entry; a Shared entry with GPU readers): GPU work that
\* is ordered behind the work holding the range locks it although the check
\* failed. The calls below are those the lock functions accept.
GpuReadPipelined(r) ==
    /\ ~panicked
    /\ HeldTotal(held) < MaxHeld
    /\ check_gpu_read(ranges, r) # "Ok"
    /\ \E res \in {gpu_read_lock(ranges, r, overflow_checks)} :
          ~res.panic /\ Granted(res, "gpu_read", r)

GpuWritePipelined(r) ==
    /\ ~panicked
    /\ HeldTotal(held) < MaxHeld
    /\ check_gpu_write(ranges, r) # "Ok"
    /\ \E res \in {gpu_write_lock(ranges, r, overflow_checks)} :
          ~res.panic /\ Granted(res, "gpu_write", r)

NextPipelined ==
    \/ Next
    \/ \E r \in Ranges : GpuReadPipelined(r) \/ GpuWritePipelined(r)

SpecPipelined == Init /\ [][NextPipelined]_vars

(* ------------------------------ future actions ------------------------ *)

CountFlush(s) == IF s.variant = "Exec" THEN [s EXCEPT !.flushes = @ + 1] ELSE s

CountSignal(s) ==
    IF s.variant = "Exec" /\ s.done THEN [s EXCEPT !.signals = @ + 1] ELSE s

\* The GPU unlock of the future's access on the buffer, for each release the
\* step from `old` to `now` made; res is [ranges, panic, held].
unlock_for(res, old, now, oc) ==
    IF now.unlocks = old.unlocks \/ res.panic THEN res
    ELSE Only({[ranges |-> u.ranges, panic |-> u.panic,
                held |-> res.held (-) SetToBag({old.access})]
               : u \in {unlock(old.access[1], res.ranges, old.access[2], oc)}})

\* The futures become nf, and the locks they released are unlocked.
FutStep(nf) ==
    /\ \E r1 \in {unlock_for([ranges |-> ranges, panic |-> FALSE, held |-> held],
                             fut["first"], nf["first"], overflow_checks)} :
       \E r2 \in {unlock_for(r1, fut["second"], nf["second"], overflow_checks)} :
          /\ ranges' = r2.ranges
          /\ panicked' = r2.panic
          /\ held' = r2.held
    /\ fut' = nf
    /\ UNCHANGED <<overflow_checks, destroyed, mutex, threads, call>>

\* now().then_execute(command buffer): the command buffer's access of kind k
\* to range r is checked and locked on the buffer.
ThenExecute(f, k, r) ==
    /\ ~panicked
    /\ fut[f].variant = "Now"
    /\ HeldTotal(held) < MaxHeld
    /\ check(k, ranges, r) = "Ok"
    /\ \E res \in {lock(k, ranges, r, overflow_checks)} :
          /\ ranges' = res.ranges
          /\ panicked' = res.panic
          /\ held' = held (+) SetToBag({<<k, r>>})
    /\ fut' = [fut EXCEPT ![f] = ExecFuture(k, r)]
    /\ UNCHANGED <<overflow_checks, destroyed, mutex, threads, call>>

Callable(f) == fut[f].variant = "Exec" /\ ~fut[f].dropped

\* flush() on the boxed operand f; the driver answers `status` if asked.
Flush(f, status) ==
    /\ ~panicked
    /\ Callable(f)
    /\ fut[f].flushes < MaxCalls
    /\ FutStep([fut EXCEPT ![f] = CountFlush(box_flush(fut[f], status))])

\* build_submission() on the boxed operand f, the caller handing what it
\* returns to the driver submission layer.
BuildSubmission(f, status) ==
    /\ ~panicked
    /\ Callable(f)
    /\ fut[f].flushes < MaxCalls
    /\ FutStep([fut EXCEPT ![f] =
                  CountFlush(IF box_build_submission(fut[f]) = "Empty" THEN fut[f]
                             ELSE submitted(fut[f], status))])

\* flush() on join(first, second): both operands are flushed.
JoinFlush(st1, st2) ==
    /\ ~panicked
    /\ \E f \in FutIds : Callable(f)
    /\ \A f \in FutIds : ~fut[f].dropped /\ fut[f].flushes < MaxCalls
    /\ FutStep([f \in FutIds |->
                  CountFlush(box_flush(fut[f], IF f = "first" THEN st1 ELSE st2))])

\* The GPU finishes the submitted work of f.
Complete(f) ==
    /\ ~panicked
    /\ fut[f].variant = "Exec"
    /\ fut[f].flushed = "Ok"
    /\ ~fut[f].done
    /\ FutStep([fut EXCEPT ![f].done = TRUE])

\* signal_finished() on the boxed operand f, by a caller that has
\* determined that the work is finished.
SignalFinished(f) ==
    /\ ~panicked
    /\ Callable(f)
    /\ fut[f].done
    /\ fut[f].signals < MaxCalls
    /\ FutStep([fut EXCEPT ![f] = CountSignal(box_signal_finished(fut[f]))])

\* signal_finished() on join(first, second).
JoinSignalFinished ==
    /\ ~panicked
    /\ \E f \in FutIds : Callable(f)
    /\ \A f \in FutIds :
          /\ ~fut[f].dropped
          /\ fut[f].signals < MaxCalls
          /\ fut[f].variant = "Exec" => fut[f].done
    /\ FutStep([f \in FutIds |-> CountSignal(box_signal_finished(fut[f]))])

\* cleanup_finished() on join(first, second), at any time.
JoinCleanupFinished ==
    /\ ~panicked
    /\ \E f \in FutIds : Callable(f)
    /\ \A f \in FutIds : ~fut[f].dropped /\ fut[f].signals < MaxCalls
    /\ FutStep([f \in FutIds |-> CountSignal(box_cleanup_finished(fut[f]))])

DropFuture_without_waiting(f) ==
    /\ ~panicked
    /\ Callable(f)
    /\ FutStep([fut EXCEPT ![f] = drop(fut[f])])

\* Destruction of the operand f: it returns at once for a future that is
\* finished or was never submitted, and otherwise when the work is finished.
DropFuture(f) ==
    /\ ~panicked
    /\ Callable(f)
    /\ (fut[f].flushed = "Ok" /\ ~fut[f].finished) => fut[f].done
    /\ FutStep([fut EXCEPT ![f] = drop(fut[f])])

NextFuture ==
    \/ \E f \in FutIds, k \in {"gpu_read", "gpu_write"}, r \in Ranges : ThenExecute(f, k, r)
    \/ \E f \in FutIds : \E status \in DriverAnswers(fut[f]) : Flush(f, status)
    \/ \E f \in FutIds : \E status \in DriverAnswers(fut[f]) : BuildSubmission(f, status)
    \/ \E st1 \in DriverAnswers(fut["first"]), st2 \in DriverAnswers(fut["second"]) :
          JoinFlush(st1, st2)
    \/ \E f \in FutIds : Complete(f)
    \/ \E f \in FutIds : SignalFinished(f)
    \/ JoinSignalFinished
    \/ JoinCleanupFinished
    \/ \E f \in FutIds : DropFuture(f)

\* The buffer is used by the command buffers of the futures only.
SpecFuture == Init /\ [][NextFuture]_vars

\* The operands of the join as they are made, before any call on them:
\* the inputs of check_buffer_access.
NextJoin ==
    \E f \in FutIds, k \in {"gpu_read", "gpu_write"}, r \in Ranges : ThenExecute(f, k, r)

SpecJoin == Init /\ [][NextJoin]_vars

(* ------------------------------ destruction ---------------------------- *)

\* A ReadLock or WriteLock is an ordinary value: it can be leaked
\* (std::mem::forget), which ends its borrow of the buffer without running
\* its Drop, so that its unlock is never called.
ForgetGuard(k, r) ==
    /\ ~panicked
    /\ k \in {"cpu_read", "cpu_write"}
    /\ BagIn(<<k, r>>, held)
    /\ held' = (held (-) SetToBag({<<k, r>>})) (+) SetToBag({<<"leaked", r>>})
    /\ UNCHANGED <<ranges, panicked, overflow_checks, destroyed, fut, mutex, threads, call>>

\* Drop for UnsafeBuffer, once nothing borrows or shares the buffer any more:
\* destroy_buffer is called; the BufferState is not consulted.
DropUnsafeBuffer ==
    /\ ~panicked
    /\ \A l \in BagToSet(held) : l[1] = "leaked"
    /\ destroyed' = TRUE
    /\ UNCHANGED <<ranges, panicked, overflow_checks, held, fut, mutex, threads, call>>

NextDrop ==
    \/ ~destroyed /\ Next
    \/ ~destroyed /\ \E k \in LockKinds, r \in Ranges : ForgetGuard(k, r)
    \/ ~destroyed /\ DropUnsafeBuffer

\* The buffer is locked as in Spec, guards may be leaked, and the buffer is
\* destroyed at the end.
SpecDrop == Init /\ [][NextDrop]_vars

(* ------------------------------ unchecked calls ------------------------ *)
\* The lock and unlock functions are `unsafe fn`: nothing in them stops a
\* caller from calling a lock without its check, or an unlock without its
\* lock. The behaviours below follow the protocol up to the first such call.
\* The ledger records it as <<"unchecked", kind, range>> (a lock taken
\* although the check fails), <<"unmatched", kind, range>> (an unlock with no
\* outstanding lock of that kind and range) or <<"released", kind, range>>
\* (an unchecked lock that was unlocked again).
Unchecked(h) ==
    \E l \in BagToSet(h) : l[1] \in {"unchecked", "unmatched", "released"}

\* K_lock(r) called although check_K(r) fails.
UncheckedLock(k, r) ==
    /\ ~panicked
    /\ HeldTotal(held) < MaxHeld
    /\ check(k, ranges, r) # "Ok"
    /\ \E res \in {lock(k, ranges, r, overflow_checks)} :
          /\ ranges' = res.ranges
          /\ panicked' = res.panic
          /\ held' = IF res.panic THEN held
                     ELSE held (+) SetToBag({<<"unchecked", k, r>>})
    /\ UNCHANGED <<overflow_checks, destroyed, fut, mutex, threads, call>>

\* K_unlock(r) called although no K_lock(r) is outstanding.
UnmatchedUnlock(k, r) ==
    /\ ~panicked
    /\ HeldTotal(held) < MaxHeld
    /\ ~BagIn(<<k, r>>, held)
    /\ \E res \in {unlock(k, ranges, r, overflow_checks)} :
          /\ ranges' = res.ranges
          /\ panicked' = res.panic
          /\ held' = IF res.panic THEN held
                     ELSE held (+) SetToBag({<<"unmatched", k, r>>})
    /\ UNCHANGED <<overflow_checks, destroyed, fut, mutex, threads, call>>

\* K_unlock(r) after the unchecked K_lock(r).
UncheckedRelease(k, r) ==
    /\ ~panicked
    /\ BagIn(<<"unchecked", k, r>>, held)
    /\ \E res \in {unlock(k, ranges, r, overflow_checks)} :
          /\ ranges' = res.ranges
          /\ panicked' = res.panic
          /\ held' = (held (-) SetToBag({<<"unchecked", k, r>>}))
                        (+) SetToBag({<<"released", k, r>>})
    /\ UNCHANGED <<overflow_checks, destroyed, fut, mutex, threads, call>>

NextUnsafe ==
    \/ ~Unchecked(held) /\ Next
    \/ ~Unchecked(held) /\ \E k \in LockKinds, r \in Ranges : UncheckedLock(k, r)
    \/ ~Unchecked(held) /\ \E k \in LockKinds, r \in Ranges : UnmatchedUnlock(k, r)
    \/ \E k \in LockKinds, r \in Ranges : UncheckedRelease(k, r)

\* Callers that follow the protocol up to one call that does not.
SpecUnsafe == Init /\ [][NextUnsafe]_vars

(* ------------------------------ threads -------------------------------- *)
\* CpuAccessibleBuffer::read and write and the drops of their guards, called
\* by several threads on one buffer, statement by statement. The range of
\* every call is the whole buffer (buffer_range = offset .. offset + size).
\* mutex is the owner of the state mutex, 0 when it is free. Mapping the
\* memory and building the guard (the statements between the lock and the
\* return) succeed.

state_does_not_wait(t) == mutex' = t

\* UnsafeBuffer::state: self.state.lock() returns once the mutex is free,
\* the caller owning it until the MutexGuard is dropped.
state(t) == mutex = 0 /\ mutex' = t

\* `let mut state = self.inner.state();` of read().
ReadState(t) ==
    /\ ~panicked
    /\ threads[t].pc = "idle"
    /\ HeldTotal(held) < MaxHeld
    /\ state(t)
    /\ threads' = [threads EXCEPT ![t].pc = "read_check"]
    /\ UNCHANGED <<ranges, panicked, overflow_checks, held, destroyed, fut, call>>

\* `state.check_cpu_read(buffer_range.clone())?;`: an error is returned at
\* once, which drops the MutexGuard.
ReadCheck(t) ==
    /\ ~panicked
    /\ threads[t].pc = "read_check"
    /\ \E res \in {check_cpu_read(ranges, Full)} :
          IF res = "Ok"
          THEN /\ threads' = [threads EXCEPT ![t].pc = "read_lock"]
               /\ UNCHANGED mutex
          ELSE /\ threads' = [threads EXCEPT ![t].pc = "idle", ![t].result = res]
               /\ mutex' = 0
    /\ UNCHANGED <<ranges, panicked, overflow_checks, held, destroyed, fut, call>>

\* `state.cpu_read_lock(buffer_range.clone());`
ReadLocked(t) ==
    /\ ~panicked
    /\ threads[t].pc = "read_lock"
    /\ \E res \in {cpu_read_lock(ranges, Full, overflow_checks)} :
          /\ ranges' = res.ranges
          /\ panicked' = res.panic
          /\ held' = IF res.panic THEN held
                     ELSE held (+) SetToBag({<<"cpu_read", Full>>})
    /\ threads' = [threads EXCEPT ![t].pc = "read_return"]
    /\ UNCHANGED <<overflow_checks, destroyed, fut, mutex, call>>

\* `Ok(ReadLock { .. })`: the caller owns the guard, the MutexGuard is
\* dropped.
ReadReturn(t) ==
    /\ ~panicked
    /\ threads[t].pc = "read_return"
    /\ threads' = [threads EXCEPT ![t].pc = "idle", ![t].reads = @ + 1,
                                  ![t].result = "Ok"]
    /\ mutex' = 0
    /\ UNCHANGED <<ranges, panicked, overflow_checks, held, destroyed, fut, call>>

\* `let mut state = self.inner.state();` of write().
WriteState(t) ==
    /\ ~panicked
    /\ threads[t].pc = "idle"
    /\ HeldTotal(held) < MaxHeld
    /\ state(t)
    /\ threads' = [threads EXCEPT ![t].pc = "write_check"]
    /\ UNCHANGED <<ranges, panicked, overflow_checks, held, destroyed, fut, call>>

WriteCheck_after_lock(t) ==
    /\ ~panicked
    /\ threads[t].pc = "write_check"
    /\ \E l \in {cpu_write_lock(ranges, Full, overflow_checks)} :
       \E res \in {check_cpu_write(l.ranges, Full)} :
          /\ ranges' = l.ranges
          /\ IF res = "Ok"
             THEN /\ threads' = [threads EXCEPT ![t].pc = "write_lock"]
                  /\ UNCHANGED mutex
             ELSE /\ threads' = [threads EXCEPT ![t].pc = "idle", ![t].result = res]
                  /\ mutex' = 0
    /\ UNCHANGED <<panicked, overflow_checks, held, destroyed, fut, call>>

\* `state.check_cpu_write(buffer_range.clone())?;`
WriteCheck(t) ==
    /\ ~panicked
    /\ threads[t].pc = "write_check"
    /\ \E res \in {check_cpu_write(ranges, Full)} :
          IF res = "Ok"
          THEN /\ threads' = [threads EXCEPT ![t].pc = "write_lock"]
               /\ UNCHANGED mutex
          ELSE /\ threads' = [threads EXCEPT ![t].pc = "idle", ![t].result = res]
               /\ mutex' = 0
    /\ UNCHANGED <<ranges, panicked, overflow_checks, held, destroyed, fut, call>>

\* `state.cpu_write_lock(buffer_range.clone());`
WriteLocked(t) ==
    /\ ~panicked
    /\ threads[t].pc = "write_lock"
    /\ \E res \in {cpu_write_lock(ranges, Full, overflow_checks)} :
          /\ ranges' = res.ranges
          /\ panicked' = res.panic
          /\ held' = IF res.panic THEN held
                     ELSE held (+) SetToBag({<<"cpu_write", Full>>})
    /\ threads' = [threads EXCEPT ![t].pc = "write_return"]
    /\ UNCHANGED <<overflow_checks, destroyed, fut, mutex, call>>

\* `Ok(WriteLock { .. })`
WriteReturn(t) ==
    /\ ~panicked
    /\ threads[t].pc = "write_return"
    /\ threads' = [threads EXCEPT ![t].pc = "idle", ![t].writes = @ + 1,
                                  ![t].result = "Ok"]
    /\ mutex' = 0
    /\ UNCHANGED <<ranges, panicked, overflow_checks, held, destroyed, fut, call>>

\* Drop for ReadLock: `let mut state = self.inner.inner.state();`
ReadLockDropState(t) ==
    /\ ~panicked
    /\ threads[t].pc = "idle"
    /\ threads[t].reads > 0
    /\ state(t)
    /\ threads' = [threads EXCEPT ![t].pc = "drop_read"]
    /\ UNCHANGED <<ranges, panicked, overflow_checks, held, destroyed, fut, call>>

ReadLockDrop_unlocks_twice(t) ==
    /\ ~panicked
    /\ threads[t].pc = "drop_read"
    /\ \E once \in {cpu_read_unlock(ranges, Full, overflow_checks)} :
       \E res \in {IF once.panic THEN once
                   ELSE cpu_read_unlock(once.ranges, Full, overflow_checks)} :
          /\ ranges' = res.ranges
          /\ panicked' = res.panic
          /\ held' = held (-) SetToBag({<<"cpu_read", Full>>})
    /\ threads' = [threads EXCEPT ![t].pc = "idle", ![t].reads = @ - 1]
    /\ mutex' = 0
    /\ UNCHANGED <<overflow_checks, destroyed, fut, call>>

\* Drop for ReadLock: `state.cpu_read_unlock(self.buffer_range.clone());`
\* and the end of the drop.
ReadLockDrop(t) ==
    /\ ~panicked
    /\ threads[t].pc = "drop_read"
    /\ \E res \in {cpu_read_unlock(ranges, Full, overflow_checks)} :
          /\ ranges' = res.ranges
          /\ panicked' = res.panic
          /\ held' = held (-) SetToBag({<<"cpu_read", Full>>})
    /\ threads' = [threads EXCEPT ![t].pc = "idle", ![t].reads = @ - 1]
    /\ mutex' = 0
    /\ UNCHANGED <<overflow_checks, destroyed, fut, call>>

\* Drop for WriteLock: the mapped range is flushed, then
\* `let mut state = self.inner.inner.state();`
WriteLockDropState(t) ==
    /\ ~panicked
    /\ threads[t].pc = "idle"
    /\ threads[t].writes > 0
    /\ state(t)
    /\ threads' = [threads EXCEPT ![t].pc = "drop_write"]
    /\ UNCHANGED <<ranges, panicked, overflow_checks, held, destroyed, fut, call>>

\* Drop for WriteLock: `state.cpu_write_unlock(self.buffer_range.clone());`
WriteLockDrop(t) ==
    /\ ~panicked
    /\ threads[t].pc = "drop_write"
    /\ \E res \in {cpu_write_unlock(ranges, Full, overflow_checks)} :
          /\ ranges' = res.ranges
          /\ panicked' = res.panic
          /\ held' = held (-) SetToBag({<<"cpu_write", Full>>})
    /\ threads' = [threads EXCEPT ![t].pc = "idle", ![t].writes = @ - 1]
    /\ mutex' = 0
    /\ UNCHANGED <<overflow_checks, destroyed, fut, call>>

NextThreads ==
    \E t \in Threads :
        \/ ReadState(t)
        \/ ReadCheck(t)
        \/ ReadLocked(t)
        \/ ReadReturn(t)
        \/ WriteState(t)
        \/ WriteCheck(t)
        \/ WriteLocked(t)
        \/ WriteReturn(t)
        \/ ReadLockDropState(t)
        \/ ReadLockDrop(t)
        \/ WriteLockDropState(t)
        \/ WriteLockDrop(t)

\* Threads calling read() and write() on one CpuAccessibleBuffer and
\* dropping the guards they got.
SpecThreads == Init /\ [][NextThreads]_vars

(* ------------------------------ a stream of readers ------------------- *)
\* One schedule of the threads: thread 1 only calls write(); every other
\* thread calls read() when it owns no ReadLock, drops its ReadLock when
\* another one is alive, and may call write() while it owns none. write() is
\* called only once a ReadLock is alive. No thread stops inside a call, and
\* the writer and the readers get the mutex again and again.

Writer == 1

Readers == Threads \ {Writer}

\* The number of ReadLock guards the threads own.
ReadLocksOwned ==
    Cardinality({t \in Threads : threads[t].reads > 0})

WriterAttempts(t) ==
    ReadLocksOwned >= 1 /\ threads[t].reads = 0 /\ WriteState(t)

ReaderReads(t) == threads[t].reads = 0 /\ ReadState(t)

ReaderDrops(t) == ReadLocksOwned >= 2 /\ ReadLockDropState(t)

\* The steps inside a call of thread t.
InsideCall(t) ==
    ReadCheck(t) \/ ReadLocked(t) \/ ReadReturn(t) \/ ReadLockDrop(t) \/ WriteCheck(t)

NextStarve ==
    \/ \E t \in Threads : WriterAttempts(t)
    \/ \E t \in Threads : WriteCheck(t)
    \/ \E t \in Readers : ReaderReads(t)
    \/ \E t \in Readers : ReadCheck(t)
    \/ \E t \in Readers : ReadLocked(t)
    \/ \E t \in Readers : ReadReturn(t)
    \/ \E t \in Readers : ReaderDrops(t)
    \/ \E t \in Readers : ReadLockDrop(t)

FairStarve ==
    /\ \A t \in Threads : WF_vars(InsideCall(t))
    /\ SF_vars(WriterAttempts(Writer))
    /\ \A t \in Readers : SF_vars(ReaderReads(t)) /\ SF_vars(ReaderDrops(t))

SpecStarve == Init /\ [][NextStarve]_vars /\ FairStarve

(* ------------------------------ FlushError ----------------------------- *)

\* The error statuses of the driver (enum VulkanError); Unnamed stands for a
\* status code the enum has no name for.
VulkanErrors ==
    {"OutOfHostMemory", "OutOfDeviceMemory", "InitializationFailed", "DeviceLost",
     "MemoryMapFailed", "LayerNotPresent", "ExtensionNotPresent", "FeatureNotPresent",
     "IncompatibleDriver", "TooManyObjects", "FormatNotSupported", "FragmentedPool",
     "Unknown", "OutOfPoolMemory", "InvalidExternalHandle", "Fragmentation",
     "InvalidOpaqueCaptureAddress", "IncompatibleDisplay", "NotPermitted",
     "SurfaceLost", "NativeWindowInUse", "OutOfDate", "ValidationFailed",
     "FullScreenExclusiveModeLost", "InvalidDrmFormatModifierPlaneLayout",
     "InvalidShader", "Unnamed"}

\* impl From<VulkanError> for OomError, used by `err.into()`.
OomError_from(err) ==
    IF err \in {"OutOfHostMemory", "OutOfDeviceMemory"} THEN [tag |-> err] ELSE Panic

FlushError_from_never_panics(err) ==
    CASE err \in {"OutOfHostMemory", "OutOfDeviceMemory"} ->
            [tag |-> "OomError", err |-> OomError_from(err)]
      [] err = "SurfaceLost" -> [tag |-> "SurfaceLost"]
      [] err = "OutOfDate" -> [tag |-> "OutOfDate"]
      [] err = "FullScreenExclusiveModeLost" -> [tag |-> "FullScreenExclusiveModeLost"]
      [] OTHER -> [tag |-> "DeviceLost"]

\* impl From<VulkanError> for FlushError.
FlushError_from(err) ==
    CASE err \in {"OutOfHostMemory", "OutOfDeviceMemory"} ->
            [tag |-> "OomError", err |-> OomError_from(err)]
      [] err = "DeviceLost" -> [tag |-> "DeviceLost"]
      [] err = "SurfaceLost" -> [tag |-> "SurfaceLost"]
      [] err = "OutOfDate" -> [tag |-> "OutOfDate"]
      [] err = "FullScreenExclusiveModeLost" -> [tag |-> "FullScreenExclusiveModeLost"]
      [] OTHER -> Panic

\* The driver submission layer got the status err from the driver and
\* translates it; call.log is the list of the translations made so far.
Translate(err) ==
    /\ ~panicked
    /\ call.fn \in {"none", "FlushError::from"}
    /\ call.fn = "FlushError::from" => Len(call.log) < MaxCalls
    /\ \E into \in {FlushError_from(err)} :
          /\ call' = [fn  |-> "FlushError::from",
                      log |-> Append(IF call.fn = "none" THEN <<>> ELSE call.log,
                                     [from |-> err, into |-> into])]
          /\ panicked' = (into = Panic)
    /\ UNCHANGED <<ranges, overflow_checks, held, destroyed, fut, mutex, threads>>

NextFlushError == \E err \in VulkanErrors : Translate(err)

SpecFlushError == Init /\ [][NextFlushError]_vars

(* ------------------------------ RenderPass::validate ------------------- *)
\* The validation of one subpass dependency between two subpasses of the
\* render pass, from the comparison of the subpass indices on. A stage mask
\* (PipelineStages) is the set of the names of its fields that are true; the
\* checks before allow the fields below and no other in a dependency between
\* subpasses.

\* The factor of each stage in the arrays of the stage order check.
StageFactor ==
    [draw_indirect |-> 1, vertex_shader |-> 4, tessellation_control_shader |-> 5,
     tessellation_evaluation_shader |-> 6, geometry_shader |-> 7,
     early_fragment_tests |-> 10, fragment_shader |-> 11,
     late_fragment_tests |-> 12, color_attachment_output |-> 13]

OrderedStages == DOMAIN StageFactor

FramebufferStages ==
    {"early_fragment_tests", "fragment_shader", "late_fragment_tests",
     "color_attachment_output"}

SubpassStages == OrderedStages \cup {"all_graphics"}

\* The stage masks tried: those with at most MaxStages stages set.
StageMasks == {m \in SUBSET SubpassStages : Cardinality(m) <= MaxStages}

\* `[draw_indirect as u8 * 1, ..., color_attachment_output as u8 * 13]`
StageArray(stages) ==
    {IF st \in stages THEN StageFactor[st] ELSE 0 : st \in OrderedStages}

source_latest_stage(source_stages) ==
    IF "all_graphics" \in source_stages THEN 13 ELSE Max(StageArray(source_stages))

destination_earliest_stage(destination_stages) ==
    IF "all_graphics" \in destination_stages THEN 1
    ELSE Min(StageArray(destination_stages))

\* The checks of a dependency from source_subpass to destination_subpass,
\* both subpasses of the render pass, without multiview.
validate_dependency(source_subpass, destination_subpass, source_stages, destination_stages, by_region) ==
    CASE source_subpass > destination_subpass ->
            "DependencySourceSubpassAfterDestinationSubpass"
      [] source_subpass < destination_subpass -> "Ok"
      [] OTHER ->
            IF /\ (source_stages \ FramebufferStages # {}
                      \/ destination_stages \ FramebufferStages # {})
               /\ source_latest_stage(source_stages)
                     > destination_earliest_stage(destination_stages)
            THEN "DependencySelfDependencySourceStageAfterDestinationStage"
            ELSE IF /\ source_stages \cap FramebufferStages # {}
                    /\ destination_stages \cap FramebufferStages # {}
                    /\ ~by_region
                 THEN "DependencySelfDependencyFramebufferStagesWithoutByRegion"
                 ELSE "Ok"

\* RenderPass::validate on a render pass with one dependency.
Validate(source_subpass, destination_subpass, source_stages, destination_stages, by_region) ==
    /\ ~panicked
    /\ call = NoCall
    /\ call' = [fn |-> "RenderPass::validate",
                source_subpass |-> source_subpass,
                destination_subpass |-> destination_subpass,
                source_stages |-> source_stages,
                destination_stages |-> destination_stages,
                by_region |-> by_region,
                result |-> validate_dependency(source_subpass, destination_subpass,
                                               source_stages, destination_stages,
                                               by_region)]
    /\ UNCHANGED <<ranges, panicked, overflow_checks, held, destroyed, fut, mutex,
                   threads>>

NextValidate ==
    /\ call = NoCall
    /\ \E source_subpass \in 0 .. 1, destination_subpass \in 0 .. 1,
          source_stages \in StageMasks, destination_stages \in StageMasks,
          by_region \in BOOLEAN :
          Validate(source_subpass, destination_subpass, source_stages,
                   destination_stages, by_region)

SpecValidate == Init /\ [][NextValidate]_vars

(* ------------------------------ memory types --------------------------- *)

\* The answers of the filter passed to alloc_from_requirements.
AllocFromRequirementsFilter == {"Preferred", "Allowed", "Forbidden"}

MappingRequirement == {"Map", "DoNotMap"}

\* The memory types of a physical device, each reduced to
\* property_flags.host_visible; the type of index i is entry i + 1.
MemoryTypeLists ==
    UNION {[1 .. n -> BOOLEAN] : n \in 0 .. MaxTypes}

\* 1 << i
RECURSIVE Shl1(_)
Shl1(i) == IF i = 0 THEN 1 ELSE 2 * Shl1(i - 1)

\* (memory_type_bits & (1 << i)) != 0
BitSet(memory_type_bits, i) == (memory_type_bits \div Shl1(i)) % 2 = 1

\* The values of requirements.memory_type_bits: every pattern over the
\* indices of the types and over one index past them.
MemoryTypeBits == 0 .. (Shl1(MaxTypes + 1) - 1)

\* first_loop.chain(second_loop): every type with Preferred, then every type
\* with Allowed, as <<index, host_visible, answer looked for>>.
LoopChain(memory_types) ==
    [k \in 1 .. Len(memory_types) |->
        <<k - 1, memory_types[k], "Preferred">>]
    \o [k \in 1 .. Len(memory_types) |->
        <<k - 1, memory_types[k], "Allowed">>]

\* The filter wrapped by choose_allocation_memory_type: a type that is not
\* host-visible is Forbidden when the memory is to be mapped.
MappedFilter(filter, map, i, host_visible) ==
    IF map = "Map" /\ ~host_visible THEN "Forbidden" ELSE filter[i]

choose_allocation_memory_type_ignores_map(memory_types, memory_type_bits, filter, map) ==
    LET Found == SelectSeq(LoopChain(memory_types),
                     LAMBDA e : BitSet(memory_type_bits, e[1]) /\ filter[e[1]] = e[3])
    IN  IF Found = <<>> THEN Panic ELSE [tag |-> "Index", index |-> Head(Found)[1]]

\* The index of the first entry of the chain that memory_type_bits allows and
\* for which the filter gives the answer looked for, as
\* [tag |-> "Index", index |-> i]; a panic if there is none.
choose_allocation_memory_type(memory_types, memory_type_bits, filter, map) ==
    LET Found == SelectSeq(LoopChain(memory_types),
                     LAMBDA e : /\ BitSet(memory_type_bits, e[1])
                                /\ MappedFilter(filter, map, e[1], e[2]) = e[3])
    IN  IF Found = <<>> THEN Panic ELSE [tag |-> "Index", index |-> Head(Found)[1]]

\* A call of choose_allocation_memory_type with a filter whose answer
\* depends on the memory type only.
Choose(memory_types, memory_type_bits, filter, map) ==
    /\ ~panicked
    /\ call = NoCall
    /\ \E result \in {choose_allocation_memory_type(memory_types, memory_type_bits,
                                                    filter, map)} :
          /\ call' = [fn |-> "choose_allocation_memory_type",
                      memory_types |-> memory_types,
                      memory_type_bits |-> memory_type_bits,
                      filter |-> filter,
                      map |-> map,
                      result |-> result]
          /\ panicked' = (result = Panic)
    /\ UNCHANGED <<ranges, overflow_checks, held, destroyed, fut, mutex, threads>>

NextChoose ==
    /\ call = NoCall
    /\ \E memory_types \in MemoryTypeLists, memory_type_bits \in MemoryTypeBits,
          map \in MappingRequirement :
          \E filter \in [0 .. (Len(memory_types) - 1) -> AllocFromRequirementsFilter] :
             Choose(memory_types, memory_type_bits, filter, map)

SpecChoose == Init /\ [][NextChoose]_vars

(* ------------------------------ properties ----------------------------- *)

Bytes == 0 .. (Size - 1)

CpuHolders(b) == Holders("cpu_read", b) + Holders("cpu_write", b)

GpuHolders(b) == Holders("gpu_read", b) + Holders("gpu_write", b)

\* The lowest byte of r that any outstanding lock covers is covered by GPU
\* locks only.
FirstHolderIsGpu(r) ==
    \E b \in BytesOf(r) :
        /\ GpuHolders(b) > 0
        /\ CpuHolders(b) = 0
        /\ \A c \in BytesOf(r) : c < b => CpuHolders(c) + GpuHolders(c) = 0

\* C1 (as amended): while a CPU write lock on R1 is outstanding, for every
\* R2 overlapping R1 check_cpu_write(R2) returns an error: Err(CpuLocked),
\* except that it is Err(GpuLocked) when the lowest-addressed held byte of R2
\* is held by the GPU only.
C1_WriteLockedUntilUnlock ==
    \A r1 \in Ranges : BagIn(<<"cpu_write", r1>>, held) =>
        \A r2 \in Ranges : RangesOverlap(r1, r2) =>
            check_cpu_write(ranges, r2) =
                IF FirstHolderIsGpu(r2) THEN "GpuLocked" ELSE "CpuLocked"

\* C1 as stated: while a CPU write lock on R1 is outstanding, every
\* check_cpu_write(R2) with R2 overlapping R1 returns Err(CpuLocked),
\* whatever is locked on other ranges.
C1_Original ==
    \A r1 \in Ranges : BagIn(<<"cpu_write", r1>>, held) =>
        \A r2 \in Ranges : RangesOverlap(r1, r2) =>
            check_cpu_write(ranges, r2) = "CpuLocked"

\* A CPU write lock is outstanding next to another lock, and a check on a
\* different, overlapping range is refused with CpuLocked.
C1_Witness ==
    \E r1, r2 \in Ranges :
        /\ BagIn(<<"cpu_write", r1>>, held)
        /\ HeldTotal(held) >= 2
        /\ r1 # r2
        /\ RangesOverlap(r1, r2)
        /\ check_cpu_write(ranges, r2) = "CpuLocked"

\* The bytes of r whose entry is CpuExclusive or GpuExclusive.
ExclusiveBytes(r) == {b \in BytesOf(r) : ByteState(ranges, b).tag # "Shared"}

\* C2 (as amended): check_cpu_read(R) returns Ok when every sub-range
\* overlapping R is Shared, whatever its read counts; otherwise the
\* lowest-addressed exclusive sub-range overlapping R decides:
\* Err(CpuWriteLocked) if it is CpuExclusive, Err(GpuWriteLocked) if it is
\* GpuExclusive. A partial overlap is enough.
C2_CheckCpuRead ==
    \A r \in Ranges :
        check_cpu_read(ranges, r) =
            CASE ExclusiveBytes(r) = {} -> "Ok"
              [] ExclusiveBytes(r) # {}
                   /\ ByteState(ranges, Min(ExclusiveBytes(r))).tag = "CpuExclusive"
                 -> "CpuWriteLocked"
              [] OTHER -> "GpuWriteLocked"

\* C2 as stated: Err(CpuWriteLocked) if any overlapping sub-range is
\* CpuExclusive, Err(GpuWriteLocked) if any is GpuExclusive, Ok otherwise.
C2_Original ==
    \A r \in Ranges :
        LET tags == {ByteState(ranges, b).tag : b \in BytesOf(r)}
        IN  /\ "CpuExclusive" \in tags => check_cpu_read(ranges, r) = "CpuWriteLocked"
            /\ "GpuExclusive" \in tags => check_cpu_read(ranges, r) = "GpuWriteLocked"
            /\ tags \subseteq {"Shared"} => check_cpu_read(ranges, r) = "Ok"

\* The scenario of the claim, scaled: the write lock covers 0..2 and the
\* check of 1..3, which overlaps it in byte 1 only, is refused.
C2_Witness ==
    /\ BagIn(<<"cpu_write", [start |-> 0, end |-> 2]>>, held)
    /\ ByteState(ranges, 2).tag = "Shared"
    /\ check_cpu_read(ranges, [start |-> 1, end |-> 3]) = "CpuWriteLocked"

\* Any of the lock and unlock calls on r.
OpOn(r) ==
    \/ CpuRead(r) \/ CpuReadDrop(r) \/ CpuWrite(r) \/ CpuWriteDrop(r)
    \/ GpuRead(r) \/ GpuReadUnlock(r) \/ GpuWrite(r) \/ GpuWriteUnlock(r)

\* C3: a lock or unlock on R1 leaves the state of every byte of a range R2
\* that does not overlap R1 unchanged, and with it the result of each of the
\* four checks on R2.
C3_RangeIndependence ==
    [][\A r1 \in Ranges : OpOn(r1) =>
          \A r2 \in Ranges : ~RangesOverlap(r1, r2) =>
              /\ \A b \in BytesOf(r2) : ByteState(ranges', b) = ByteState(ranges, b)
              /\ \A k \in LockKinds : check(k, ranges', r2) = check(k, ranges, r2)]_vars

\* A CPU write lock and a GPU write lock are outstanding on ranges that do
\* not overlap.
C3_Witness ==
    \E r1, r2 \in Ranges :
        /\ ~RangesOverlap(r1, r2)
        /\ BagIn(<<"cpu_write", r1>>, held)
        /\ BagIn(<<"gpu_write", r2>>, held)

\* C4: wherever check_K(R) succeeds, K_lock(R) followed by K_unlock(R)
\* returns every byte of the buffer to the state it had before the lock.
C4_RoundTrip ==
    \A k \in LockKinds : \A r \in Ranges :
        check(k, ranges, r) = "Ok" =>
            LET l == lock(k, ranges, r, overflow_checks)
                u == unlock(k, l.ranges, r, overflow_checks)
            IN  /\ ~l.panic
                /\ ~u.panic
                /\ ByteView(l.ranges) # ByteView(ranges)
                /\ ByteView(u.ranges) = ByteView(ranges)

\* A read lock on an inner range was taken and released while a read lock
\* on the whole buffer stays: every byte is back at one reader.
C4_Witness ==
    /\ HeldTotal(held) = 1
    /\ CopiesIn(<<"cpu_read", Full>>, held) = 1
    /\ Len(ranges) = 3
    /\ \A b \in Bytes : ByteState(ranges, b) = Shared(1, 0)

\* C5: whenever no lock is outstanding (initially, and after every lock was
\* released by its unlock on the same range), every byte is Shared{0, 0} and
\* check_cpu_write over the whole buffer returns Ok, however the map is split.
C5_IdleIsShared ==
    HeldTotal(held) = 0 =>
        /\ ~panicked
        /\ \A b \in Bytes : ByteState(ranges, b) = Shared(0, 0)
        /\ check_cpu_write(ranges, Full) = "Ok"

\* Locks were taken and all released, leaving the map split.
C5_Witness ==
    /\ HeldTotal(held) = 0
    /\ Len(ranges) > 1
    /\ ranges[1].end < Size

\* C6: the entries of the range map are non-empty, adjacent in ascending
\* order, and cover exactly 0..Size.
C6_Partition ==
    /\ Len(ranges) >= 1
    /\ ranges[1].start = 0
    /\ ranges[Len(ranges)].end = Size
    /\ \A i \in DOMAIN ranges : ranges[i].start < ranges[i].end
    /\ \A i \in 1 .. (Len(ranges) - 1) : ranges[i].end = ranges[i + 1].start

\* Locks split the map into several entries carrying different states.
C6_Witness ==
    /\ Len(ranges) >= 3
    /\ \E i, j \in DOMAIN ranges : ranges[i].state # ranges[j].state

\* C7: when every lock is taken after its check succeeded, a byte held by a
\* CPU writer has no other holder, and a byte held by a GPU writer has no CPU
\* reader and no CPU writer.
C7_MutualExclusion ==
    \A b \in Bytes :
        /\ Holders("cpu_write", b) > 0 =>
              /\ Holders("cpu_write", b) = 1
              /\ Holders("cpu_read", b) = 0
              /\ GpuHolders(b) = 0
        /\ Holders("gpu_write", b) > 0 => CpuHolders(b) = 0

\* A CPU writer and a GPU writer hold different bytes, each alone.
C7_Witness ==
    \E b1, b2 \in Bytes :
        /\ Holders("cpu_write", b1) = 1
        /\ Holders("gpu_write", b2) = 1

\* The bytes of r whose entry is not Shared{0, 0}.
BusyBytes(r) == {b \in BytesOf(r) : ByteState(ranges, b) # Shared(0, 0)}

\* C8: check_cpu_write(R) returns Ok exactly when every sub-range
\* overlapping R is Shared{0, 0}; otherwise the first offending sub-range
\* decides: Err(CpuLocked) if it is CpuExclusive or Shared with cpu_reads > 0,
\* Err(GpuLocked) if it is GpuExclusive or Shared with gpu_reads > 0 and
\* cpu_reads = 0.
C8_CheckCpuWrite ==
    \A r \in Ranges :
        LET res == check_cpu_write(ranges, r)
        IN  /\ res = "Ok" <=> BusyBytes(r) = {}
            /\ BusyBytes(r) # {} =>
                  LET s == ByteState(ranges, Min(BusyBytes(r)))
                  IN  /\ (s.tag = "CpuExclusive"
                            \/ (s.tag = "Shared" /\ s.cpu_reads # 0))
                         => res = "CpuLocked"
                      /\ (s.tag = "GpuExclusive"
                            \/ (s.tag = "Shared" /\ s.gpu_reads # 0 /\ s.cpu_reads = 0))
                         => res = "GpuLocked"

\* A range that starts with a sub-range read by both CPU and GPU is refused
\* with CpuLocked, a range read by the GPU only with GpuLocked, and a third
\* range is free.
C8_Witness ==
    /\ \E r \in Ranges : /\ ByteState(ranges, r.start) = Shared(1, 1)
                         /\ check_cpu_write(ranges, r) = "CpuLocked"
    /\ \E r \in Ranges : check_cpu_write(ranges, r) = "GpuLocked"
    /\ \E r \in Ranges : check_cpu_write(ranges, r) = "Ok"

\* One more call of gpu_read_lock(r) after the calls whose results are
\* `before`; a panic ends the calls.
gpu_read_lock_again(before, r, oc) ==
    Append(before, IF before[Len(before)].panic THEN before[Len(before)]
                   ELSE gpu_read_lock(before[Len(before)].ranges, r, oc))

\* The results of 0, 1, ..., n calls of gpu_read_lock(r) in a row (element
\* i + 1 is the result of i calls).
RECURSIVE gpu_read_lock_times(_, _, _, _)
gpu_read_lock_times(rs, r, oc, n) ==
    IF n = 0 THEN << [ranges |-> rs, panic |-> FALSE] >>
    ELSE Only({gpu_read_lock_again(before, r, oc) :
                  before \in {gpu_read_lock_times(rs, r, oc, n - 1)}})

\* The same for gpu_read_unlock(r).
gpu_read_unlock_again(before, r, oc) ==
    Append(before, IF before[Len(before)].panic THEN before[Len(before)]
                   ELSE gpu_read_unlock(before[Len(before)].ranges, r, oc))

RECURSIVE gpu_read_unlock_times(_, _, _, _)
gpu_read_unlock_times(rs, r, oc, n) ==
    IF n = 0 THEN << [ranges |-> rs, panic |-> FALSE] >>
    ELSE Only({gpu_read_unlock_again(before, r, oc) :
                  before \in {gpu_read_unlock_times(rs, r, oc, n - 1)}})

\* The byte states `view` with gpu_reads of the bytes of r raised by n.
WithGpuReads(view, r, n) ==
    [b \in Bytes |-> IF b \in BytesOf(r)
                     THEN [view[b] EXCEPT !.gpu_reads = @ + n]
                     ELSE view[b]]

\* `locks` are the results of 0 .. MaxRepeat calls of gpu_read_lock(r) from
\* the byte states `view`, `unlocks` those of 0 .. MaxRepeat calls of
\* gpu_read_unlock(r) after them.
GpuReadRepeats(view, r, locks, unlocks) ==
    /\ \A n \in 1 .. MaxRepeat :
          /\ ~locks[n + 1].panic
          /\ ByteView(locks[n + 1].ranges) = WithGpuReads(view, r, n)
    /\ \A m \in 1 .. MaxRepeat :
          /\ ~unlocks[m + 1].panic
          /\ ByteView(unlocks[m + 1].ranges) = WithGpuReads(view, r, MaxRepeat - m)
    /\ \A m \in 0 .. (MaxRepeat - 1) :
          ByteView(unlocks[m + 1].ranges) # view

\* C9: on a range whose sub-ranges are all Shared or GpuExclusive, n calls of
\* gpu_read_lock(R) in a row do not panic, keep every variant and leave
\* gpu_reads of every byte of R at its value plus n (no other byte changes);
\* the following gpu_read_unlock(R) calls take one off each, so that exactly n
\* of them restore the starting state.
C9_GpuReadLockRepeats ==
    \A r \in Ranges :
        (\A b \in BytesOf(r) : ByteState(ranges, b).tag \in {"Shared", "GpuExclusive"}) =>
            \A locks \in {gpu_read_lock_times(ranges, r, overflow_checks, MaxRepeat)} :
            \A unlocks \in {gpu_read_unlock_times(locks[MaxRepeat + 1].ranges, r,
                                                  overflow_checks, MaxRepeat)} :
            \A view \in {ByteView(ranges)} :
                GpuReadRepeats(view, r, locks, unlocks)

\* A GPU read lock is outstanding on a range of which a GPU writer holds one
\* part and nobody the other.
C9_Witness ==
    \E r \in Ranges :
        /\ BagIn(<<"gpu_read", r>>, held)
        /\ \E b \in BytesOf(r) : ByteState(ranges, b) = GpuExclusive(1, 1)
        /\ \E b \in BytesOf(r) : ByteState(ranges, b) = Shared(0, 1)

\* C10 (as amended): check_gpu_read(R) returns Ok exactly when every
\* sub-range overlapping R is Shared, whatever its cpu_reads and gpu_reads,
\* and Err(AlreadyInUse) when any of them is CpuExclusive or GpuExclusive.
C10_CheckGpuRead ==
    \A r \in Ranges :
        check_gpu_read(ranges, r) =
            IF \A b \in BytesOf(r) : ByteState(ranges, b).tag = "Shared"
            THEN "Ok" ELSE "AlreadyInUse"

\* C10 as stated: check_gpu_read(R) succeeds when every sub-range overlapping
\* R is Shared or GpuExclusive, and fails when one of them is held by the CPU
\* for writing.
C10_Original ==
    \A r \in Ranges :
        LET tags == {ByteState(ranges, b).tag : b \in BytesOf(r)}
        IN  /\ tags \subseteq {"Shared", "GpuExclusive"} => check_gpu_read(ranges, r) = "Ok"
            /\ "CpuExclusive" \in tags => check_gpu_read(ranges, r) # "Ok"

\* The check is refused on a range under a GPU writer and granted on a
\* range with a CPU reader.
C10_Witness ==
    /\ \E r \in Ranges :
          /\ \A b \in BytesOf(r) : ByteState(ranges, b).tag = "GpuExclusive"
          /\ check_gpu_read(ranges, r) = "AlreadyInUse"
    /\ \E r \in Ranges :
          /\ \A b \in BytesOf(r) : ByteState(ranges, b) = Shared(1, 0)
          /\ check_gpu_read(ranges, r) = "Ok"

\* C11: check_gpu_write(R) returns Ok exactly when every sub-range
\* overlapping R is Shared{0, 0} and Err(AlreadyInUse) otherwise; the
\* gpu_write_lock(R) that follows a successful check does not panic, leaves
\* every byte of R at GpuExclusive{gpu_reads: 0, gpu_writes: 1} and changes
\* no other byte.
C11_CheckGpuWrite ==
    \A r \in Ranges :
        /\ check_gpu_write(ranges, r) =
              IF BusyBytes(r) = {} THEN "Ok" ELSE "AlreadyInUse"
        /\ check_gpu_write(ranges, r) = "Ok" =>
              \A l \in {gpu_write_lock(ranges, r, overflow_checks)} :
                  /\ ~l.panic
                  /\ \A b \in Bytes :
                        ByteState(l.ranges, b) =
                            IF b \in BytesOf(r) THEN GpuExclusive(0, 1)
                            ELSE ByteState(ranges, b)

\* A GPU write lock taken after its check holds a range at
\* GpuExclusive{0, 1}, and next to it the check is refused on a range that
\* has only a GPU reader and granted on a free one.
C11_Witness ==
    /\ \E r \in Ranges :
          /\ BagIn(<<"gpu_write", r>>, held)
          /\ \A b \in BytesOf(r) : ByteState(ranges, b) = GpuExclusive(0, 1)
    /\ \E r \in Ranges :
          /\ \A b \in BytesOf(r) : ByteState(ranges, b) = Shared(0, 1)
          /\ check_gpu_write(ranges, r) = "AlreadyInUse"
    /\ \E r \in Ranges : check_gpu_write(ranges, r) = "Ok"

\* The state gpu_write_lock leaves on a GpuExclusive entry, and the state
\* gpu_write_unlock leaves on it.
AfterGpuWriteLock(s) == GpuExclusive(s.gpu_reads, s.gpu_writes + 1)

AfterGpuWriteUnlock(s) ==
    IF s.gpu_writes = 1 THEN Shared(0, s.gpu_reads)
    ELSE GpuExclusive(s.gpu_reads, s.gpu_writes - 1)

\* C12: a byte is GpuExclusive exactly while GPU write locks on it are
\* outstanding, gpu_writes counting them and gpu_reads the outstanding GPU
\* read locks; on a range of GpuExclusive sub-ranges gpu_write_lock adds one
\* to gpu_writes and gpu_write_unlock takes one off, the entry becoming
\* Shared{cpu_reads: 0, gpu_reads: g} with its current gpu_reads g when
\* gpu_writes was 1 and staying GpuExclusive otherwise.
C12_GpuWriteCount ==
    /\ \A b \in Bytes :
          /\ ByteState(ranges, b).tag = "GpuExclusive" <=> Holders("gpu_write", b) >= 1
          /\ ByteState(ranges, b).tag = "GpuExclusive" =>
                ByteState(ranges, b) =
                    GpuExclusive(Holders("gpu_read", b), Holders("gpu_write", b))
          /\ (ByteState(ranges, b).tag = "Shared" /\ GpuHolders(b) > 0) =>
                ByteState(ranges, b).gpu_reads = Holders("gpu_read", b)
    /\ \A r \in Ranges :
          (\A b \in BytesOf(r) : ByteState(ranges, b).tag = "GpuExclusive") =>
              \A l \in {gpu_write_lock(ranges, r, overflow_checks)} :
              \A u \in {gpu_write_unlock(ranges, r, overflow_checks)} :
                  /\ ~l.panic
                  /\ ~u.panic
                  /\ \A b \in Bytes :
                        /\ ByteState(l.ranges, b) =
                              IF b \in BytesOf(r)
                              THEN AfterGpuWriteLock(ByteState(ranges, b))
                              ELSE ByteState(ranges, b)
                        /\ ByteState(u.ranges, b) =
                              IF b \in BytesOf(r)
                              THEN AfterGpuWriteUnlock(ByteState(ranges, b))
                              ELSE ByteState(ranges, b)

\* A GPU read lock was taken on a range under a GPU write lock, and the
\* unlock of the writer leaves the reader counted.
C12_Witness ==
    \E r \in Ranges :
        /\ BagIn(<<"gpu_write", r>>, held)
        /\ \E b \in BytesOf(r) :
              /\ Holders("gpu_read", b) = 1
              /\ ByteState(ranges, b) = GpuExclusive(1, 1)
              /\ ByteState(gpu_write_unlock(ranges, r, overflow_checks).ranges, b)
                    = Shared(0, 1)

LockedFutures == {f \in FutIds : fut[f].variant = "Exec" /\ fut[f].unlocks = 0}

LockedAccesses == {fut[f].access : f \in LockedFutures}

\* Number of futures holding a lock of kind k that covers byte b.
FutureHolders(k, b) ==
    Cardinality({f \in LockedFutures :
                    fut[f].access[1] = k /\ b \in BytesOf(fut[f].access[2])})

\* C16: signal_finished() called a second time on a live future returns the
\* future it was given; no future releases its locks more than once, a
\* finished future has released them once, and the buffer counts exactly the
\* locks of the futures that have not released theirs (no unlock panicked or
\* ran a counter below zero).
C16_SignalFinishedIdempotent ==
    /\ ~panicked
    /\ \A f \in FutIds :
          /\ fut[f].unlocks <= 1
          /\ fut[f].finished => fut[f].unlocks = 1
          /\ (Callable(f) /\ fut[f].done) =>
                \A once \in {box_signal_finished(fut[f])} :
                    /\ once.finished
                    /\ once.unlocks = 1
                    /\ box_signal_finished(once) = once
    /\ BagToSet(held) = LockedAccesses
    /\ BagCardinality(held) = Cardinality(LockedFutures)
    /\ \A b \in Bytes :
          ByteState(ranges, b) =
              IF FutureHolders("gpu_write", b) > 0
              THEN GpuExclusive(FutureHolders("gpu_read", b), FutureHolders("gpu_write", b))
              ELSE Shared(0, FutureHolders("gpu_read", b))

\* signal_finished() was called again on a finished future while the other
\* future still holds its lock.
C16_Witness ==
    \E f, g \in FutIds :
        /\ fut[f].finished /\ ~fut[f].dropped
        /\ fut[f].signals = MaxCalls
        /\ fut[f].unlocks = 1
        /\ fut[g].variant = "Exec" /\ fut[g].unlocks = 0
        /\ held = SetToBag({fut[g].access})

\* The operands whose command buffer accesses a range overlapping r with
\* access kind k.
Users(k, r) ==
    {f \in FutIds : /\ fut[f].variant = "Exec"
                    /\ fut[f].access[1] = k
                    /\ RangesOverlap(fut[f].access[2], r)}

\* C17: for every range, check_buffer_access(exclusive = true) of
\* join(first, second) is Ok only if one operand answers Ok and neither
\* answers Denied, that is only if some operand writes the range and none
\* reads it; it is Denied when either operand denies and Unknown when both
\* answer Unknown.
C17_JoinCheckBufferAccess ==
    \A r \in Ranges :
        \A a \in {box_check_buffer_access(fut["first"], r, TRUE)} :
        \A b \in {box_check_buffer_access(fut["second"], r, TRUE)} :
        \A j \in {join_check_buffer_access(a, b)} :
            /\ j.tag = "Ok" =>
                  /\ a.tag = "Ok" \/ b.tag = "Ok"
                  /\ a.tag # "Denied" /\ b.tag # "Denied"
                  /\ Users("gpu_write", r) # {} /\ Users("gpu_read", r) = {}
            /\ (a.tag = "Denied" \/ b.tag = "Denied") => j.tag = "Denied"
            /\ (a.tag = "Unknown" /\ b.tag = "Unknown") => j.tag = "Unknown"

\* One operand writes a range and the other reads another: the join denies
\* exclusive access to a range across both, grants it on the written range
\* and does not know a third.
C17_Witness ==
    /\ \E r \in Ranges :
          /\ box_check_buffer_access(fut["first"], r, TRUE).tag = "Ok"
          /\ box_check_buffer_access(fut["second"], r, TRUE).tag = "Denied"
          /\ join_check_buffer_access(box_check_buffer_access(fut["first"], r, TRUE),
                                      box_check_buffer_access(fut["second"], r, TRUE)).tag
                = "Denied"
    /\ \E r \in Ranges :
          /\ box_check_buffer_access(fut["second"], r, TRUE).tag = "Unknown"
          /\ join_check_buffer_access(box_check_buffer_access(fut["first"], r, TRUE),
                                      box_check_buffer_access(fut["second"], r, TRUE)).tag
                = "Ok"
    /\ \E r \in Ranges :
          join_check_buffer_access(box_check_buffer_access(fut["first"], r, TRUE),
                                   box_check_buffer_access(fut["second"], r, TRUE)).tag
              = "Unknown"

\* C18: in the chain now().join(other) with other flushed and signaled
\* finished, other has released its locks exactly once, no lock is held on
\* the buffer and no unlock panicked, and one more cleanup_finished() on the
\* join changes neither operand.
C18_CleanupReleasesOnce ==
    (/\ fut["first"].variant = "Now"
     /\ fut["second"].variant = "Exec"
     /\ fut["second"].flushed = "Ok"
     /\ fut["second"].finished) =>
        /\ ~panicked
        /\ fut["second"].unlocks = 1
        /\ held = EmptyBag
        /\ \A b \in Bytes : ByteState(ranges, b) = Shared(0, 0)
        /\ \A f \in FutIds : box_cleanup_finished(fut[f]) = fut[f]

\* cleanup_finished() was called on now().join(other) as often as counted
\* after other, a GPU reader, was signaled finished.
C18_Witness ==
    /\ fut["first"].variant = "Now"
    /\ fut["second"].variant = "Exec"
    /\ fut["second"].access[1] = "gpu_read"
    /\ fut["second"].finished
    /\ ~fut["second"].dropped
    /\ fut["second"].signals = MaxCalls
    /\ fut["second"].unlocks = 1
    /\ Len(ranges) > 1

\* C19: a destroyed future whose work was submitted is one whose work is
\* done (it was signaled finished before, or its destruction waited); the
\* locks of a submitted future are released only once its work is done; and a
\* finished future is one that was flushed and whose work is done.
C19_FinishedBeforeDestroyed ==
    \A f \in FutIds :
        /\ (fut[f].dropped /\ fut[f].flushed = "Ok") => fut[f].done
        /\ (fut[f].unlocks > 0 /\ fut[f].flushed = "Ok") => fut[f].done
        /\ fut[f].finished => fut[f].flushed = "Ok" /\ fut[f].done
        /\ fut[f].done => fut[f].submissions = 1

\* One future was destroyed without signal_finished() after its work was
\* done, the other was signaled finished and then destroyed.
C19_Witness ==
    \E f, g \in FutIds :
        /\ fut[f].dropped /\ fut[f].flushed = "Ok" /\ ~fut[f].finished
        /\ fut[f].unlocks = 1
        /\ fut[g].dropped /\ fut[g].finished

\* C20: a buffer that was destroyed while a sub-range was not Shared has
\* signalled a fatal error.
C20_DestroyedWhileLocked ==
    (destroyed /\ \E b \in Bytes : ByteState(ranges, b).tag # "Shared") => panicked

(* ------------------------------ unchecked-call properties -------------- *)

\* The states of a sub-range on which the lock (op = "lock") or unlock
\* (op = "unlock") of kind k is fatal.
Unexpected(op, k, s) ==
    CASE k = "cpu_read"  -> s.tag \in {"CpuExclusive", "GpuExclusive"}
      [] k = "cpu_write" -> op = "unlock" /\ s.tag # "CpuExclusive"
      [] k = "gpu_read"  -> s.tag = "CpuExclusive"
      [] k = "gpu_write" ->
            IF op = "lock"
            THEN s.tag = "CpuExclusive" \/ (s.tag = "Shared" /\ s.cpu_reads # 0)
            ELSE s.tag # "GpuExclusive"

\* C21: a lock or unlock of any kind on a range with a sub-range whose
\* variant it does not expect panics, whatever the other sub-ranges of the
\* range are: cpu_read_lock and cpu_read_unlock on CpuExclusive or
\* GpuExclusive, cpu_write_unlock on anything but CpuExclusive, gpu_read_lock
\* and gpu_read_unlock on CpuExclusive, gpu_write_lock on CpuExclusive or on
\* Shared with cpu_reads > 0, gpu_write_unlock on anything but GpuExclusive.
C21_UnexpectedVariantIsFatal ==
    \A k \in LockKinds : \A r \in Ranges :
        /\ (\E b \in BytesOf(r) : Unexpected("lock", k, ByteState(ranges, b)))
              => lock(k, ranges, r, overflow_checks).panic
        /\ (\E b \in BytesOf(r) : Unexpected("unlock", k, ByteState(ranges, b)))
              => unlock(k, ranges, r, overflow_checks).panic

\* cpu_read_lock was called without its check on a range that starts free
\* and runs into the range of a WriteLock: it counted a reader on the first
\* sub-range and panicked at the second.
C21_Witness ==
    /\ panicked
    /\ ByteState(ranges, 0) = Shared(1, 0)
    /\ Holders("cpu_read", 0) = 0
    /\ \E r \in Ranges : BagIn(<<"cpu_write", r>>, held)
    /\ \E b \in Bytes : ByteState(ranges, b) = CpuExclusive

\* Number of ledger entries <<mark, k, range>> whose range covers byte b.
Marked(mark, k, b) ==
    LET covering == {l \in BagToSet(held) :
                        l[1] = mark /\ l[2] = k /\ b \in BytesOf(l[3])}
    IN  BagCardinality([l \in covering |-> held[l]])

\* Locks of kind k taken on byte b minus locks of kind k released on it.
TakenMinusReleased(k, b) ==
    Holders(k, b) + Marked("unchecked", k, b) - Marked("unmatched", k, b)

\* The read counters of a sub-range state, as <<kind, counter>> pairs.
ReadCounters(s) ==
    CASE s.tag = "Shared" -> {<<"cpu_read", s.cpu_reads>>, <<"gpu_read", s.gpu_reads>>}
      [] s.tag = "GpuExclusive" -> {<<"gpu_read", s.gpu_reads>>}
      [] OTHER -> {}

\* C22: no read counter is ever left at 2^32 - 1 by an unlock of a counter
\* that was 0, and as long as nothing panicked every read counter equals the
\* number of read locks taken minus the number released on its byte.
C22_ReadCountersExact ==
    \A b \in Bytes : \A c \in ReadCounters(ByteState(ranges, b)) :
        /\ c[2] # U32Max
        /\ ~panicked => c[2] = TakenMinusReleased(c[1], b)

\* C28: in whatever state the sub-ranges are, cpu_write_lock(R) does not
\* panic and leaves every byte of R CpuExclusive and every other byte as it
\* was; the cpu_write_unlock(R) after it does not panic and leaves every byte
\* of R at Shared{cpu_reads: 0, gpu_reads: 0}, whatever was counted on it
\* before the lock.
C28_CpuWriteLockOverwrites ==
    \A r \in Ranges :
        \A l \in {cpu_write_lock(ranges, r, overflow_checks)} :
        \A u \in {cpu_write_unlock(l.ranges, r, overflow_checks)} :
            /\ ~l.panic
            /\ ~u.panic
            /\ \A b \in Bytes :
                  /\ ByteState(l.ranges, b) =
                        IF b \in BytesOf(r) THEN CpuExclusive ELSE ByteState(ranges, b)
                  /\ ByteState(u.ranges, b) =
                        IF b \in BytesOf(r) THEN Shared(0, 0) ELSE ByteState(ranges, b)

\* cpu_write_lock was called without its check on a range that a ReadLock
\* still holds, and unlocked again: the reader is forgotten.
C28_Witness ==
    \E r, r2 \in Ranges :
        /\ ~panicked
        /\ BagIn(<<"released", "cpu_write", r>>, held)
        /\ BagIn(<<"cpu_read", r2>>, held)
        /\ \E b \in BytesOf(r) \cap BytesOf(r2) : ByteState(ranges, b) = Shared(0, 0)
        /\ \E b \in BytesOf(r2) \ BytesOf(r) : ByteState(ranges, b) = Shared(1, 0)

(* ------------------------------ thread properties ---------------------- *)

\* The number of guards of one sort (field "reads" or "writes") that the
\* threads 1 .. n own.
RECURSIVE GuardsUpTo(_, _)
GuardsUpTo(field, n) ==
    IF n = 0 THEN 0 ELSE threads[n][field] + GuardsUpTo(field, n - 1)

ReadLocksAlive == GuardsUpTo("reads", MaxThreads)

WriteLocksAlive == GuardsUpTo("writes", MaxThreads)

\* C23: a thread that is inside read(), write() or the drop of a guard owns
\* the state mutex from its state() call to its return, its check and its
\* lock included, so that at most one thread is inside at a time; at most one
\* WriteLock is alive, and none together with a ReadLock; the same holds of
\* the locks counted on the buffer, and no call panics.
C23_Serialized ==
    /\ ~panicked
    /\ \A t \in Threads : threads[t].pc # "idle" => mutex = t
    /\ WriteLocksAlive <= 1
    /\ WriteLocksAlive = 1 => ReadLocksAlive = 0
    /\ Holders("cpu_write", 0) <= 1
    /\ Holders("cpu_write", 0) = 1 => Holders("cpu_read", 0) = 0

\* One thread owns a ReadLock; another, whose write() was refused, is inside
\* read() between the check and the lock.
C23_Witness ==
    \E t, u \in Threads :
        /\ threads[t].reads = 1
        /\ threads[t].pc = "idle"
        /\ threads[u].result = "CpuLocked"
        /\ threads[u].pc = "read_lock"
        /\ mutex = u

ThreadsAt(pc) == Cardinality({t \in Threads : threads[t].pc = pc})

C24_WriterStarves ==
    /\ [](\A b \in Bytes : ByteState(ranges, b).tag = "Shared")
    /\ [][ByteState(ranges, 0).cpu_reads >= 1 => ByteState(ranges', 0).cpu_reads >= 1]_vars
    /\ [](ByteState(ranges, 0).cpu_reads >= 1 => check_cpu_write(ranges, Full) = "CpuLocked")
    /\ [](\A t \in Threads :
             /\ threads[t].pc \notin {"write_lock", "write_return"}
             /\ threads[t].writes = 0
             /\ threads[t].pc = "write_check" => ByteState(ranges, 0).cpu_reads >= 1)
    /\ []<>(threads[Writer].pc = "write_check")
    /\ []<>(threads[Writer].pc = "idle" /\ threads[Writer].result = "CpuLocked")
    /\ \A t \in Readers : []<>(threads[t].reads = 1) /\ []<>(threads[t].reads = 0)

\* write() was refused to the writer, every reader owns a ReadLock, and one
\* of them is dropping its own while the others keep theirs.
C24_Witness ==
    /\ \A t \in Readers : threads[t].reads = 1
    /\ \E t \in Readers : threads[t].pc = "drop_read"
    /\ threads[Writer].result = "CpuLocked"
    /\ threads[Writer].pc = "idle"

(* ------------------------------ conversion properties ------------------ *)

\* The translations made so far.
Translations == IF call.fn = "FlushError::from" THEN call.log ELSE <<>>

\* C25: every translation of a driver status gives OomError for
\* OutOfHostMemory and OutOfDeviceMemory, and DeviceLost, SurfaceLost,
\* OutOfDate and FullScreenExclusiveModeLost for the status of the same name;
\* every other status panics, which ends the translations; none gives
\* Timeout, AccessError or PresentIdLessThanOrEqual.
C25_FlushErrorFrom ==
    /\ \A i \in DOMAIN Translations :
          \A from \in {Translations[i].from} : \A into \in {Translations[i].into} :
              /\ from \in {"OutOfHostMemory", "OutOfDeviceMemory"} <=>
                    (into # Panic /\ into.tag = "OomError")
              /\ \A same \in {"DeviceLost", "SurfaceLost", "OutOfDate",
                              "FullScreenExclusiveModeLost"} :
                    from = same <=> into = [tag |-> same]
              /\ from \notin {"OutOfHostMemory", "OutOfDeviceMemory", "DeviceLost",
                              "SurfaceLost", "OutOfDate", "FullScreenExclusiveModeLost"}
                    <=> into = Panic
              /\ into # Panic =>
                    into.tag \notin {"Timeout", "AccessError", "PresentIdLessThanOrEqual"}
              /\ into = Panic => i = Len(Translations) /\ panicked
    /\ panicked => Translations # <<>> /\ Translations[Len(Translations)].into = Panic

\* An out-of-memory status was translated into OomError, and then a status
\* that is not a flush error ended the translations with a panic.
C25_Witness ==
    /\ Len(Translations) = MaxCalls
    /\ Translations[1] = [from |-> "OutOfDeviceMemory",
                          into |-> [tag |-> "OomError", err |-> [tag |-> "OutOfDeviceMemory"]]]
    /\ Translations[Len(Translations)].from = "InitializationFailed"
    /\ panicked

\* The position in pipeline order of the latest and of the earliest stage
\* that is set in a stage mask (all_graphics stands for every graphics
\* stage).
LatestStageSet(stages) ==
    IF "all_graphics" \in stages THEN 13
    ELSE Max({StageFactor[st] : st \in stages})

EarliestStageSet(stages) ==
    IF "all_graphics" \in stages THEN 1
    ELSE Min({StageFactor[st] : st \in stages})

\* C29: the validation of a self-dependency whose stage masks are not empty
\* and not both made of framebuffer stages returns
\* DependencySelfDependencySourceStageAfterDestinationStage exactly when the
\* latest stage set in source_stages is later in pipeline order than the
\* earliest stage set in destination_stages.
C29_SelfDependencyStageOrder ==
    (/\ call.fn = "RenderPass::validate"
     /\ call.source_subpass = call.destination_subpass
     /\ call.source_stages # {} /\ call.destination_stages # {}
     /\ (call.source_stages \ FramebufferStages # {}
           \/ call.destination_stages \ FramebufferStages # {})) =>
        (call.result = "DependencySelfDependencySourceStageAfterDestinationStage"
            <=> LatestStageSet(call.source_stages)
                    > EarliestStageSet(call.destination_stages))

(* ------------------------------ memory type properties ----------------- *)

\* The memory types that qualify with a given answer in a call: those that
\* memory_type_bits allows, that are host-visible if the memory is to be
\* mapped, and for which the caller's filter gives the answer.
Qualifying(c, answer) ==
    {i \in 0 .. (Len(c.memory_types) - 1) :
        /\ BitSet(c.memory_type_bits, i)
        /\ c.map = "Map" => c.memory_types[i + 1]
        /\ c.filter[i] = answer}

\* C30: choose_allocation_memory_type returns the lowest qualifying index
\* with the answer Preferred; without one, the lowest qualifying index with
\* the answer Allowed; without one it panics. The index returned is never
\* one the filter forbids and never one of a type that is not host-visible
\* when the memory is to be mapped.
C30_ChooseMemoryType ==
    call.fn = "choose_allocation_memory_type" =>
        /\ call.result.tag \in {"Index", "Panic"}
        /\ Qualifying(call, "Preferred") # {} =>
              call.result = [tag |-> "Index", index |-> Min(Qualifying(call, "Preferred"))]
        /\ (Qualifying(call, "Preferred") = {} /\ Qualifying(call, "Allowed") # {}) =>
              call.result = [tag |-> "Index", index |-> Min(Qualifying(call, "Allowed"))]
        /\ (Qualifying(call, "Preferred") = {} /\ Qualifying(call, "Allowed") = {}) <=>
              call.result = Panic
        /\ panicked <=> call.result = Panic
        /\ call.result.tag = "Index" =>
              /\ call.result.index \in 0 .. (Len(call.memory_types) - 1)
              /\ BitSet(call.memory_type_bits, call.result.index)
              /\ call.filter[call.result.index] # "Forbidden"
              /\ call.map = "Map" => call.memory_types[call.result.index + 1]

\* The caller prefers type 0, which is not host-visible, the memory is to be
\* mapped, and the host-visible type 1, merely allowed, was returned.
C30_Witness ==
    /\ call.fn = "choose_allocation_memory_type"
    /\ call.map = "Map"
    /\ Len(call.memory_types) = 2
    /\ ~call.memory_types[1] /\ call.memory_types[2]
    /\ call.filter[0] = "Preferred" /\ call.filter[1] = "Allowed"
    /\ BitSet(call.memory_type_bits, 0) /\ BitSet(call.memory_type_bits, 1)
    /\ call.result = [tag |-> "Index", index |-> 1]

====
